---- MODULE Spec2Model ----
(***************************************************************************)
(* Report generation and PDF signing of LearnerPDC.                        *)
(*                                                                         *)
(* src/WebApp/app.py    the Flask handler generate_report, cleanup_uploads *)
(* src/WebApp/logic.py  ReportController, PdfWriter, DocxWriter,           *)
(*                      add_image_to_all_pages_fitz, sign_pdf              *)
(*                                                                         *)
(* A file is a sequence of chunks.  A chunk stands for a run of bytes:     *)
(* one rendered page, one image overlay appended by an incremental save,   *)
(* or one signature revision appended by the signer.                       *)
(***************************************************************************)
EXTENDS Integers, Sequences, FiniteSets, TLC

\* ------------------------------------------------------------------ bounds
\* Students the filter may select for a report.
MaxStudents == 2
\* Instants of the clock: signing dates and certificate not_after values.
MaxTime == 2

\* Requests in flight at once: the worker threads of the server.  A script
\* that imports the library and calls the controller itself runs in one of
\* them.
Reqs == {"r1", "r2"}
Scripts == {"r1"}

\* File names clients upload under (werkzeug secure_filename of their names),
\* and the names the handler prefixes itself.
ClientNames == {"a", "b"}
PrefixedNames == {"CGPA_a", "Grade_a"}
UploadNames == ClientNames \cup PrefixedNames

NoReq == "none"

\* ------------------------------------------------------------ pure helpers
IsPrefix(s, t) ==
    /\ Len(s) <= Len(t)
    /\ \A i \in 1..Len(s) : s[i] = t[i]

Chunk(kind, n) == [kind |-> kind, n |-> n]

\* Pages of the document a formatter makes for n students: formats 1 and 2
\* put one student on a page, format 4 two pages per student, format 3 one
\* table for the one subject and semester of the request.
Pages(fmt, n) ==
    CASE fmt = "3" -> 1
      [] fmt = "4" -> 2 * n
      [] OTHER -> n

\* docx2pdf convert(temp_docx, output_filename): the rendered document.
Rendered(pages) == [i \in 1..pages |-> Chunk("page", i)]

PageCount(doc) == Cardinality({i \in 1..Len(doc) : doc[i].kind = "page"})

HasSignature(doc) == \E i \in 1..Len(doc) : doc[i].kind = "sig"
HasStamp(doc) == \E i \in 1..Len(doc) : doc[i].kind = "stamp"

\* doc.saveIncr() after page.insert_image on every page: one overlay per page
\* is appended to the file, nothing before it is rewritten.
StampIncrement(doc) == [i \in 1..PageCount(doc) |-> Chunk("stamp", i)]

\* The digest a signature holds: a hash of the bytes it is computed over,
\* here the chunks read as the digits 1 (page), 2 (overlay), 3 (signature
\* revision outside its placeholder) of a number, so that different byte
\* sequences have different digests.
ChunkCode(c) ==
    CASE c.kind = "page" -> 1
      [] c.kind = "stamp" -> 2
      [] OTHER -> 3

RECURSIVE Digest(_)
Digest(bytes) ==
    IF bytes = << >> THEN 0
    ELSE 4 * Digest(SubSeq(bytes, 1, Len(bytes) - 1))
           + ChunkCode(bytes[Len(bytes)])

\* pdf.cms.sign signing once for each page of the document.
CmsSignPerPage(pdf_data) ==
    [i \in 1..PageCount(pdf_data) |-> Chunk("sig", Digest(pdf_data))]

\* pdf.cms.sign handed the pages without the overlays saved after them.
CmsSignPagesOnly(pdf_data) ==
    << Chunk("sig", Digest(SelectSeq(pdf_data,
                                     LAMBDA c : c.kind = "page"))) >>

\* pdf.cms.sign(pdf_data, signdata, key, cert, othercerts) returns only the
\* bytes of the one new revision; the signature in it holds the digest of
\* the bytes given, its own placeholder left out.
CmsSign(pdf_data) == << Chunk("sig", Digest(pdf_data)) >>

\* sign_pdf writing the returned revision alone.
SignedBytesRevisionOnly(pdf_data) == CmsSign(pdf_data)

\* What sign_pdf writes to pdf_path.
SignedBytes(pdf_data) == pdf_data \o CmsSign(pdf_data)

\* format_choice in ['1', '2', '4', '5'] of PdfWriter.write.
SignableFormats == {"1", "2", "4", "5"}

Formats == {"1", "3", "5"}

\* The report file names ReportController gives, per format_choice.
ReportName(fmt) ==
    CASE fmt = "1" -> "Format1"
      [] fmt = "2" -> "Format2"
      [] fmt = "3" -> "Summary"
      [] fmt = "4" -> "Combined"
      [] OTHER -> "Report"

OutPaths == {"Format1", "Summary", "Combined_Report", "Summary_Report"}

\* The writes ReportController.run makes: a sequence of <<format_choice
\* passed to the writer, output file>>.  Format 5 is _generate_all_formats.
Writes(fmt) ==
    IF fmt = "5"
    THEN << <<"4", "Combined_Report">>, <<"4", "Combined_Report">>,
            <<"3", "Summary_Report">> >>
    ELSE << <<fmt, ReportName(fmt)>> >>

\* The keyword arguments generate_report passes to ReportController, and
\* the parameters ReportController.__init__ declares (none has a default).
HandlerKwargs ==
    {"excel_path", "cgpa_path", "grade_path", "format_choice", "learner_type",
     "slow_thresh", "advanced_thresh", "output_type", "semester", "sign_info",
     "common_comment", "faculty_name"}
CtorParams ==
    {"excel_path", "format_choice", "learner_type", "slow_thresh",
     "fast_thresh", "output_type", "semester", "sign_info", "common_comment"}
\* Python's call binding: no unexpected keyword, no missing parameter.
CtorAccepts(kwargs) == kwargs = CtorParams

\* ------------------------------------------------------------------- state
VARIABLES
    libs,      \* the optional imports: pdf (endesive) and fitz, present or None
    uploads,   \* UPLOAD_FOLDER: file name -> the request that saved it last
    outfs,     \* the report directory: output file -> its chunks (<<>> absent)
    req,       \* per request: position, arguments, locals, what the caller got
    pg,        \* one document in add_image_to_all_pages_fitz, page by page
    cli,       \* one call of sign_pdf of the command-line program
    sel        \* one run of process_data and filter_students

vars == << libs, uploads, outfs, req, pg, cli, sel >>

NoCert == [ok |-> FALSE, not_after |-> 0]

\* The key and certificate files of a request, as far as they have been
\* read: whether the key loads, and the certificate parsed from the file.
NoIdentity == [read |-> FALSE, key_ok |-> FALSE, cert |-> NoCert]

\* A request not yet made.  has_match says whether the sheet a web request
\* uploads holds a student that matches its filter; exc and error are the
\* exception the handler caught and the message of its error response.
Idle ==
    [pc |-> "idle", via |-> "none", fmt |-> "1", otype |-> "pdf",
     should_sign |-> FALSE, image_path |-> FALSE, students |-> 0,
     todo |-> << >>, saved |-> {}, image |-> "unread",
     store |-> NoIdentity,
     cert |-> NoCert, signingdate |-> 0, pdf_data |-> << >>,
     original |-> << >>, doc |-> << >>, stages |-> << >>,
     ret |-> "none", report |-> << >>, result |-> "none",
     has_match |-> FALSE, exc |-> "none", error |-> "none"]

\* No document is being stamped page by page.
NoStamping ==
    [pc |-> "off", pass |-> 0, file |-> << >>, doc |-> << >>, first |-> << >>,
     i |-> 0, modified |-> FALSE, raised |-> FALSE, image |-> "unread",
     args |-> [x_given |-> FALSE, y_given |-> FALSE, x |-> 0, y |-> 0,
               width |-> 100, height |-> 40],
     rects |-> << >>, rects1 |-> << >>]

\* sign_pdf of the command-line program is not being called.
NoCliCall ==
    [pc |-> "off", given |-> {}, key_ok |-> FALSE, cert_ok |-> FALSE,
     image_ok |-> FALSE, pdf |-> << >>, temp |-> << >>,
     updated |-> << >>, ret |-> "none"]

\* No student data is being processed.
NoSelection ==
    [pc |-> "off", rows |-> << >>, students |-> << >>, learner_type |-> "slow",
     slow_thresh |-> 0, fast_thresh |-> 0, out |-> << >>]

Init ==
    /\ libs \in [pdf : BOOLEAN, fitz : BOOLEAN]
    /\ uploads = [n \in UploadNames |-> NoReq]
    /\ outfs = [p \in OutPaths |-> << >>]
    /\ req = [r \in Reqs |-> Idle]
    /\ pg = NoStamping
    /\ cli = NoCliCall
    /\ sel = NoSelection

\* The file the writer is working on, and the format_choice it was given.
CurFmt(r) == req[r].todo[1][1]
CurPath(r) == req[r].todo[1][2]

Range(s) == {s[i] : i \in 1..Len(s)}

\* ---------------------------------------------------- app.py: the handler
\* cleanup_uploads(folder, exclude): every file of the folder that is not
\* excluded is unlinked, whoever saved it.
cleanup_uploads(up, exclude) ==
    [n \in UploadNames |-> IF n \in exclude THEN up[n] ELSE NoReq]

\* file.save(path): the file now holds what request r uploaded.
SaveAll(up, names, r) ==
    [n \in UploadNames |-> IF n \in names THEN r ELSE up[n]]

\* generate_report, up to the threshold parsing: each failed validation
\* answers 400 before anything is saved.
WebValidate(r) ==
    /\ req[r].pc = "idle"
    /\ \E valid \in BOOLEAN :
         req' = [req EXCEPT ![r] =
                   IF valid
                   THEN [@ EXCEPT !.pc = "w_save", !.via = "web"]
                   ELSE [@ EXCEPT !.pc = "done", !.via = "web",
                                  !.result = "400",
                                  !.error = "Missing form data."]]
    /\ UNCHANGED << cli, sel, pg, libs, uploads, outfs >>

\* The Excel file is saved under its client-given name; the CGPA and grade
\* files (saved as CGPA_<name>, Grade_<name>) and the image are optional.
WebSaveInputs(r) ==
    /\ req[r].pc = "w_save"
    /\ \E excel \in ClientNames, extra \in SUBSET PrefixedNames,
          img \in ClientNames \cup {NoReq} :
         LET names == ({excel} \cup extra \cup {img}) \ {NoReq} IN
         /\ uploads' = SaveAll(uploads, names, r)
         /\ req' = [req EXCEPT ![r].pc = "w_sign",
                               ![r].saved = names,
                               ![r].image_path = (img # NoReq)]
    /\ UNCHANGED << cli, sel, pg, libs, outfs >>

\* enableSigning: key and certificate are saved, or 400 when one is missing
\* (the files saved so far stay in the folder).
WebSigningAssets(r) ==
    /\ req[r].pc = "w_sign"
    /\ \E enable \in BOOLEAN, key_file \in ClientNames \cup {NoReq},
          cert_file \in ClientNames \cup {NoReq} :
         IF ~enable
         THEN /\ req' = [req EXCEPT ![r].pc = "w_ctor"]
              /\ UNCHANGED uploads
         ELSE IF key_file # NoReq /\ cert_file # NoReq
         THEN /\ uploads' = SaveAll(uploads, {key_file, cert_file}, r)
              /\ req' = [req EXCEPT
                           ![r].pc = "w_ctor",
                           ![r].should_sign = TRUE,
                           ![r].saved = @ \cup {key_file, cert_file}]
         ELSE /\ req' = [req EXCEPT
                           ![r].pc = "done", ![r].result = "400",
                           ![r].error = "Digital Signing is enabled but missing keys."]
              /\ UNCHANGED uploads
    /\ UNCHANGED << cli, sel, pg, libs, outfs >>

\* controller = ReportController(excel_path=..., ..., faculty_name=...):
\* Python raises TypeError when the keywords do not fit the parameters.
WebConstruct(r) ==
    /\ req[r].pc = "w_ctor"
    /\ IF CtorAccepts(HandlerKwargs)
       THEN \E fmt \in Formats, otype \in {"pdf", "word"} :
              req' = [req EXCEPT ![r].pc = "run", ![r].fmt = fmt,
                                 ![r].otype = otype]
       ELSE req' = [req EXCEPT ![r].pc = "w_except", ![r].exc = "TypeError"]
    /\ UNCHANGED << cli, sel, pg, libs, uploads, outfs >>

\* except Exception as e: cleanup_uploads(UPLOAD_FOLDER); 500 with
\* "Server error: <e>".
WebExcept(r) ==
    /\ req[r].pc = "w_except"
    /\ uploads' = cleanup_uploads(uploads, {})
    /\ req' = [req EXCEPT ![r].pc = "done", ![r].result = "500",
                          ![r].error = "Server error"]
    /\ UNCHANGED << cli, sel, pg, libs, outfs >>

\* ------------------------------------------- logic.py: the report pipeline
\* An exception leaving ReportController.run: the handler's except clause
\* takes it, any other caller sees it raised.
Raise(q) ==
    IF q.via = "web" THEN [q EXCEPT !.pc = "w_except", !.exc = "Exception"]
    ELSE [q EXCEPT !.pc = "done", !.result = "raised"]

Stage(q, name) == [q EXCEPT !.stages = Append(@, name)]

\* ReportController(...) called with the parameters __init__ declares, by a
\* caller that imports the library.
Construct(r) ==
    /\ r \in Scripts
    /\ req[r].pc = "idle"
    /\ \E fmt \in Formats, otype \in {"pdf", "word"},
          sign \in BOOLEAN, img \in BOOLEAN :
         req' = [req EXCEPT ![r] =
                   [@ EXCEPT !.pc = "run", !.via = "lib", !.fmt = fmt,
                             !.otype = otype, !.should_sign = sign,
                             !.image_path = img]]
    /\ UNCHANGED << cli, sel, pg, libs, uploads, outfs >>

\* ReportController.run up to the choice of the output files: read_data may
\* raise, no student or no selected student returns None, which the handler
\* answers with 500 "Report generation failed.".
Run(r) ==
    /\ req[r].pc = "run"
    /\ \E read_ok \in BOOLEAN, selected \in 0..MaxStudents :
         /\ req[r].via = "web" => ((selected > 0) = req[r].has_match)
         /\ req' = [req EXCEPT ![r] =
                      CASE ~read_ok -> Raise(@)
                        [] selected = 0 ->
                             [@ EXCEPT !.pc = "done",
                                       !.result = IF req[r].via = "web"
                                                  THEN "500" ELSE "None",
                                       !.error = IF req[r].via = "web"
                                                 THEN "Report generation failed."
                                                 ELSE "none"]
                        [] OTHER ->
                             [@ EXCEPT !.pc = IF req[r].otype = "word"
                                              THEN "docx" ELSE "convert",
                                       !.students = selected,
                                       !.todo = Writes(req[r].fmt)]]
    /\ UNCHANGED << cli, sel, pg, libs, uploads, outfs >>

\* DocxWriter.write: doc.save, an error is printed and swallowed.
DocxWrite(r) ==
    /\ req[r].pc = "docx"
    /\ \E ok \in BOOLEAN :
         LET pages == Pages(CurFmt(r), req[r].students) IN
         /\ outfs' = IF ok THEN [outfs EXCEPT ![CurPath(r)] = Rendered(pages)]
                     ELSE outfs
         /\ req' = [req EXCEPT ![r] =
                      [@ EXCEPT !.pc = "next", !.stages = << "Rendered" >>,
                                !.original = Rendered(pages),
                                !.doc = IF ok THEN Rendered(pages) ELSE << >>]]
    /\ UNCHANGED << cli, sel, pg, libs, uploads >>

\* PdfWriter.write, first part: doc.save to a temporary directory and
\* convert(temp_docx, output_filename); a failure is re-raised.
Convert(r) ==
    /\ req[r].pc = "convert"
    /\ \E ok \in BOOLEAN :
         LET pages == Pages(CurFmt(r), req[r].students) IN
         IF ok
         THEN /\ outfs' = [outfs EXCEPT ![CurPath(r)] = Rendered(pages)]
              /\ req' = [req EXCEPT ![r] =
                           [@ EXCEPT !.pc = "stamp",
                                     !.stages = << "Rendered" >>,
                                     !.original = Rendered(pages),
                                     !.doc = Rendered(pages),
                                     !.pdf_data = << >>]]
         ELSE /\ req' = [req EXCEPT ![r] = Raise(@)]
              /\ UNCHANGED outfs
    /\ UNCHANGED << cli, sel, pg, libs, uploads >>

\* Whether the image decodes is a property of the file: found out at its
\* first use, the same at every later one.
ImageQualities(q) ==
    IF q.image = "unread" THEN {"good", "bad"} ELSE {q.image}

\* add_image_to_all_pages_fitz(pdf_path, image_path): the file as it is
\* after the call, given the file before and whether the image decodes.
\* Every exception is caught, and then nothing is saved.
add_image_to_all_pages_fitz(file, quality, fitz) ==
    IF fitz /\ quality = "good" /\ PageCount(file) > 0
    THEN file \o StampIncrement(file)
    ELSE file

\* What add_image_to_all_pages_fitz hands back to its caller: it has no
\* return statement and its except clause only prints, so None in every case.
add_image_result(quality, fitz) == "None"

\* The stages that stand for a failed step.
Failures == {"AppearanceFailed", "IdentityFailed", "SigningFailed"}

\* PdfWriter.write, second part: the visible signature.
Stamp(r) ==
    /\ req[r].pc = "stamp"
    /\ IF req[r].should_sign /\ req[r].image_path
       THEN \E quality \in ImageQualities(req[r]) :
              LET after == add_image_to_all_pages_fitz(
                               outfs[CurPath(r)], quality, libs.fitz)
                  applied == after # outfs[CurPath(r)]
              IN
              /\ outfs' = [outfs EXCEPT ![CurPath(r)] = after]
              /\ req' = [req EXCEPT ![r] =
                           [Stage(@, IF applied THEN "AppearanceApplied"
                                     ELSE "AppearanceFailed")
                              EXCEPT !.pc = "sign",
                                     !.ret = add_image_result(quality,
                                                              libs.fitz),
                                     !.image = IF libs.fitz THEN quality
                                               ELSE @,
                                     !.doc = IF applied THEN after ELSE @]]
       ELSE /\ req' = [req EXCEPT ![r].pc = "sign"]
            /\ UNCHANGED outfs
    /\ UNCHANGED << cli, sel, pg, libs, uploads >>

\* sign_pdf's entry test: not all([pdf, key_path, cert_path, image_path]).
\* key_path and cert_path are always given when should_sign is set.
SigningInfoComplete(q, pdf) == pdf /\ q.image_path

\* The files at key_path and cert_path after a load that reads them opened
\* for writing and puts fresh material there.
LoadIdentityRewriting(store, key_ok, cert) ==
    [read |-> TRUE, key_ok |-> key_ok, cert |-> cert]

\* open(key_path, 'rb') and open(cert_path, 'rb'): the files are only read.
\* What they hold is found out at the first load and is the same at every
\* later one.
LoadIdentity(store, key_ok, cert) ==
    IF store.read THEN store
    ELSE [read |-> TRUE, key_ok |-> key_ok, cert |-> cert]

\* sign_pdf, first part, called when should_sign is set and the format is
\* one of 1, 2, 4, 5: the entry test, the signing date, then the key, the
\* certificate and the document are read.  A key that does not load (wrong
\* or missing password, not PEM) or a certificate that does not parse ends
\* the function with False.  Neither load looks at the validity window.
SignLoad(r) ==
    /\ req[r].pc = "sign"
    /\ IF ~(req[r].should_sign /\ CurFmt(r) \in SignableFormats)
       THEN req' = [req EXCEPT ![r].pc = "next"]
       ELSE IF ~SigningInfoComplete(req[r], libs.pdf)
       THEN req' = [req EXCEPT ![r] =
                      [Stage(@, "SigningSkipped") EXCEPT !.pc = "next",
                                                         !.ret = "False"]]
       ELSE \E now \in 1..MaxTime, key_ok \in BOOLEAN,
               cert_ok \in BOOLEAN, not_after \in 0..MaxTime :
              LET st == LoadIdentity(req[r].store, key_ok,
                                     [ok |-> cert_ok, not_after |-> not_after])
              IN
              \* a certificate that is not read or does not parse has no
              \* validity window
              /\ (key_ok /\ cert_ok) \/ not_after = 0
              /\ key_ok \/ ~cert_ok
              /\ req' = [req EXCEPT ![r] =
                           IF st.key_ok /\ st.cert.ok
                           THEN [Stage(@, "IdentityResolved")
                                   EXCEPT !.pc = "cms",
                                          !.store = st,
                                          !.signingdate = now,
                                          !.cert = st.cert,
                                          !.pdf_data = outfs[CurPath(r)]]
                           ELSE [Stage(@, "IdentityFailed")
                                   EXCEPT !.pc = "next", !.store = st,
                                          !.ret = "False"]]
    /\ UNCHANGED << cli, sel, pg, libs, uploads, outfs >>

\* sign_pdf, second part: pdf.cms.sign over pdf_data with the image as the
\* signature appearance, then pdf_path is rewritten with pdf_data followed by
\* the returned revision.  A library error ends the function with False and
\* nothing is written.
SignWrite(r) ==
    /\ req[r].pc = "cms"
    /\ \E quality \in ImageQualities(req[r]), lib_ok \in BOOLEAN :
         IF quality = "good" /\ lib_ok
         THEN /\ outfs' = [outfs EXCEPT ![CurPath(r)] =
                               SignedBytes(req[r].pdf_data)]
              /\ req' = [req EXCEPT ![r] =
                           [Stage(@, "CryptographicallySigned")
                              EXCEPT !.pc = "next", !.image = quality,
                                     !.ret = "True",
                                     !.doc = SignedBytes(req[r].pdf_data)]]
         ELSE /\ req' = [req EXCEPT ![r] =
                           [Stage(@, "SigningFailed")
                              EXCEPT !.pc = "next", !.ret = "False",
                                     !.image = IF lib_ok THEN quality ELSE @]]
              /\ UNCHANGED outfs
    /\ UNCHANGED << cli, sel, pg, libs, uploads >>

\* What a finished write leaves on record.
Written(q) ==
    [fmt |-> q.todo[1][1], path |-> q.todo[1][2],
     failed |-> Range(q.stages) \cap Failures # {},
     stamped |-> "AppearanceApplied" \in Range(q.stages),
     signed |-> "CryptographicallySigned" \in Range(q.stages),
     resolved |-> "IdentityResolved" \in Range(q.stages),
     cert |-> q.cert]

\* As NextWrite, but a file whose write left a failed step is written again.
NextWriteRetrying(r) ==
    /\ req[r].pc = "next"
    /\ req' = [req EXCEPT ![r] =
                 [@ EXCEPT !.report = IF Written(req[r]).failed THEN @
                                      ELSE Append(@, Written(req[r])),
                           !.todo = IF Written(req[r]).failed THEN @
                                    ELSE Tail(@),
                           !.cert = NoCert, !.signingdate = 0,
                           !.pdf_data = << >>, !.original = << >>,
                           !.doc = << >>, !.stages = << >>, !.ret = "none",
                           !.pc = IF Len(req[r].todo) > 1
                                     \/ Written(req[r]).failed
                                  THEN (IF req[r].otype = "word" THEN "docx"
                                        ELSE "convert")
                                  ELSE "deliver"]]
    /\ UNCHANGED << cli, sel, pg, libs, uploads, outfs >>

\* The writer returns (its result is not looked at) and its locals are gone;
\* the controller goes on to its next file or returns the path(s).
NextWrite(r) ==
    /\ req[r].pc = "next"
    /\ req' = [req EXCEPT ![r] =
                 [@ EXCEPT !.report = Append(@, Written(req[r])),
                           !.todo = Tail(@),
                           !.cert = NoCert, !.signingdate = 0,
                           !.pdf_data = << >>, !.original = << >>,
                           !.doc = << >>, !.stages = << >>, !.ret = "none",
                           !.pc = IF Len(req[r].todo) > 1
                                  THEN (IF req[r].otype = "word" THEN "docx"
                                        ELSE "convert")
                                  ELSE "deliver"]]
    /\ UNCHANGED << cli, sel, pg, libs, uploads, outfs >>

\* run has returned its path(s): generate_report sends the file (a zip of
\* the files for a list) and empties the upload folder; any other caller
\* just has the path.
Deliver(r) ==
    /\ req[r].pc = "deliver"
    /\ IF req[r].via = "web"
       THEN /\ uploads' = cleanup_uploads(uploads, {})
            /\ req' = [req EXCEPT ![r].pc = "done", ![r].result = "200"]
       ELSE /\ req' = [req EXCEPT ![r].pc = "done", ![r].result = "path"]
            /\ UNCHANGED uploads
    /\ UNCHANGED << cli, sel, pg, libs, outfs >>

Next ==
    \/ \E r \in Reqs : WebValidate(r)
    \/ \E r \in Reqs : WebSaveInputs(r)
    \/ \E r \in Reqs : WebSigningAssets(r)
    \/ \E r \in Reqs : WebConstruct(r)
    \/ \E r \in Reqs : WebExcept(r)
    \/ \E r \in Reqs : Construct(r)
    \/ \E r \in Reqs : Run(r)
    \/ \E r \in Reqs : DocxWrite(r)
    \/ \E r \in Reqs : Convert(r)
    \/ \E r \in Reqs : Stamp(r)
    \/ \E r \in Reqs : SignLoad(r)
    \/ \E r \in Reqs : SignWrite(r)
    \/ \E r \in Reqs : NextWrite(r)
    \/ \E r \in Reqs : Deliver(r)

Spec == Init /\ [][Next]_vars

\* ------------------------------------------------------------- properties
\* A request whose caller got a result that is no error.
Succeeded(r) == req[r].pc = "done" /\ req[r].result \in {"path", "200"}

\* The writer has finished with its current file and has not yet returned.
FileDone(r) == req[r].pc = "next" /\ req[r].otype = "pdf"

\* The writer is between the conversion and its return.
FileInProgress(r) ==
    req[r].otype = "pdf" /\ req[r].pc \in {"stamp", "sign", "cms", "next"}

StagesOf(r) == Range(req[r].stages)

\* C1: when signing was requested, a request that ends without an error for
\* its caller has signed every report file of a signable format.
C1_SignedOrError ==
    \A r \in Reqs :
      (Succeeded(r) /\ req[r].should_sign /\ req[r].otype = "pdf") =>
        \A i \in 1..Len(req[r].report) :
          req[r].report[i].fmt \in SignableFormats => req[r].report[i].signed

\* C2: after a successful signing step the output file starts with exactly
\* the bytes the step read as its input, and is longer than them.
C2_SigningOnlyAppends ==
    \A r \in Reqs :
      (FileDone(r) /\ "CryptographicallySigned" \in StagesOf(r)) =>
        /\ IsPrefix(req[r].pdf_data, outfs[CurPath(r)])
        /\ Len(outfs[CurPath(r)]) > Len(req[r].pdf_data)

\* A signing step has succeeded on a document that was stamped before, and
\* the file holds pages, overlays and the signature in that order.
C2_Witness ==
    \E r \in Reqs :
      /\ FileDone(r)
      /\ "CryptographicallySigned" \in StagesOf(r)
      /\ HasStamp(req[r].pdf_data)
      /\ outfs[CurPath(r)] = req[r].pdf_data \o CmsSign(req[r].pdf_data)

\* C3: when a stage of the request has failed, the output file is
\* byte-identical to the rendered, unsigned document.
C3_FailureLeavesOriginal ==
    \A r \in Reqs :
      (FileDone(r) /\ StagesOf(r) \cap Failures # {}) =>
        outfs[CurPath(r)] = req[r].original

\* C4: while a signing request works on its output file, the file holds the
\* rendered document or the fully signed one, nothing in between.
C4_OutputOriginalOrSigned ==
    \A r \in Reqs :
      (FileInProgress(r) /\ req[r].should_sign) =>
        \/ outfs[CurPath(r)] = req[r].original
        \/ HasSignature(outfs[CurPath(r)])

\* C5: the stages come in the order identity, appearance, signature: the
\* appearance is applied only after key and certificate have been resolved.
C5_IdentityBeforeAppearance ==
    \A r \in Reqs :
      \A j \in 1..Len(req[r].stages) :
        req[r].stages[j] = "AppearanceApplied" =>
          \E i \in 1..(j - 1) : req[r].stages[i] = "IdentityResolved"

\* C6: no stage runs after a failed one, and a request with a failed stage
\* does not end with a result for its caller that is no error.
C6_FailureIsTerminal ==
    \A r \in Reqs :
      /\ \A i \in 1..Len(req[r].stages) :
           req[r].stages[i] \in Failures => i = Len(req[r].stages)
      /\ Succeeded(r) =>
           \A i \in 1..Len(req[r].report) : ~req[r].report[i].failed

\* C7: with key and certificate but no image, and the signing library
\* present, the file of a signable format is signed: signing is not skipped.
C7_NoImageStillSigned ==
    \A r \in Reqs :
      (/\ FileDone(r)
       /\ req[r].should_sign /\ ~req[r].image_path
       /\ CurFmt(r) \in SignableFormats /\ libs.pdf) =>
        /\ "AppearanceApplied" \notin StagesOf(r)
        /\ "SigningSkipped" \notin StagesOf(r)

\* C8: with a certificate whose not_after is before the signing date, no
\* signature is made and nothing signed is written.
C8_ExpiredCertNotSigned ==
    \A r \in Reqs :
      (/\ FileInProgress(r)
       /\ req[r].cert.ok
       /\ req[r].cert.not_after < req[r].signingdate) =>
        /\ "CryptographicallySigned" \notin StagesOf(r)
        /\ ~HasSignature(outfs[CurPath(r)])

\* C9: when the image does not decode, the appearance step hands an error
\* to its caller and leaves the file as it was given.
C9_BadImageReported ==
    \A r \in Reqs :
      (/\ req[r].pc = "sign"
       /\ req[r].should_sign /\ req[r].image_path
       /\ req[r].image = "bad") =>
        /\ req[r].ret = "BadImage"
        /\ outfs[CurPath(r)] = req[r].original

\* C10: while a request is in flight, each file it saved into the upload
\* folder is there and holds what that request saved: no other request has
\* deleted or overwritten it.
C10_UploadsUntouched ==
    \A r \in Reqs :
      req[r].pc \in {"w_sign", "w_ctor", "w_except"} =>
        \A n \in req[r].saved : uploads[n] = r

\* The signature revisions of a file, and the file with their placeholders
\* (in this model the whole revision chunk) left out.
SigCount(doc) == Cardinality({i \in 1..Len(doc) : doc[i].kind = "sig"})
ExcludePlaceholder(doc) == SelectSeq(doc, LAMBDA c : c.kind # "sig")
EmbeddedDigest(doc) == doc[Len(doc)].n

SignedFile(r) == FileDone(r) /\ "CryptographicallySigned" \in StagesOf(r)

\* C11 as stated: a signed document of N pages holds N signature objects.
C11_SignaturePerPage ==
    \A r \in Reqs :
      SignedFile(r) =>
        SigCount(outfs[CurPath(r)]) = PageCount(outfs[CurPath(r)])

\* C11, amended: a signed document of N pages holds exactly one signature
\* object; it is the last thing in the file, after every page and every
\* overlay of the N pages.
C11_OneSignatureForAllPages ==
    \A r \in Reqs :
      SignedFile(r) =>
        LET f == outfs[CurPath(r)] IN
        /\ SigCount(f) = 1
        /\ f[Len(f)].kind = "sig"
        /\ PageCount(f) = Pages(CurFmt(r), req[r].students)

\* A stamped document of more than one page has been signed.
C11_Witness ==
    \E r \in Reqs :
      /\ SignedFile(r)
      /\ PageCount(outfs[CurPath(r)]) > 1
      /\ "AppearanceApplied" \in StagesOf(r)

\* C12: the digest in the signature of a signed output equals the digest
\* recomputed over the output file with the placeholder left out.
C12_DigestMatchesOutput ==
    \A r \in Reqs :
      SignedFile(r) =>
        EmbeddedDigest(outfs[CurPath(r)])
          = Digest(ExcludePlaceholder(outfs[CurPath(r)]))

\* A signed output whose signature covers pages and overlays.
C12_Witness ==
    \E r \in Reqs :
      /\ SignedFile(r)
      /\ HasStamp(outfs[CurPath(r)])
      /\ EmbeddedDigest(outfs[CurPath(r)]) > 0

\* C13: a request writes each of its output files once: no file is
\* converted, stamped and signed a second time.
C13_EachFileWrittenOnce ==
    \A r \in Reqs :
      \A i, j \in 1..Len(req[r].report) :
        i # j => req[r].report[i].path # req[r].report[j].path

\* C14: a request whose signing assets are incomplete does no work: nothing
\* is converted or written for it, and a 400 for missing keys comes before
\* any file of the request is saved.
C14_AssetsCheckedAtEntry ==
    \A r \in Reqs :
      /\ (/\ req[r].via = "lib" /\ req[r].otype = "pdf"
          /\ req[r].should_sign /\ ~req[r].image_path) =>
           /\ req[r].stages = << >>
           /\ req[r].report = << >>
      /\ (req[r].via = "web" /\ req[r].result = "400") => req[r].saved = {}

\* C19: every resolution of the signer's identity in a request yields the
\* same certificate: the second read finds what the first one found.
C19_SameIdentityEachTime ==
    \A r \in Reqs :
      /\ \A i, j \in 1..Len(req[r].report) :
           (req[r].report[i].resolved /\ req[r].report[j].resolved) =>
             req[r].report[i].cert = req[r].report[j].cert
      /\ \A i \in 1..Len(req[r].report) :
           (req[r].report[i].resolved /\ req[r].pc \in {"cms", "next"}
              /\ "IdentityResolved" \in StagesOf(r)) =>
             req[r].report[i].cert = req[r].cert

\* The identity has been resolved for two files of one request.
C19_Witness ==
    \E r \in Reqs :
      /\ Len(req[r].report) >= 2
      /\ req[r].report[1].resolved /\ req[r].report[2].resolved
      /\ req[r].report[2].cert.ok

\* C20: once generate_report has answered, none of the files the request
\* saved into the upload folder is left there.
C20_UploadsRemoved ==
    \A r \in Reqs :
      (req[r].via = "web" /\ req[r].pc = "done") =>
        \A n \in req[r].saved : uploads[n] # r

\* ---------------------------------------------------------------------
\* add_image_to_all_pages_fitz, one page at a time: where the image goes.

\* Most text lines that mention a signature on one page.
MaxLabels == 2

\* The texts the search looks for; a line reading "Signature of the"
\* contains "Signature" as well.
LabelTexts == {"Signature of the", "Signature"}

\* Where such a line can stand on a page (x0, y0 of the text rectangle).
LabelPoints == { << 20, 30 >>, << 400, 700 >> }

Labels == { [text |-> t, x0 |-> p[1], y0 |-> p[2]] :
              t \in LabelTexts, p \in LabelPoints }

LabelSeqs == UNION { [1..n -> Labels] : n \in 0..MaxLabels }

\* Page sizes in points: A4 portrait, and a page smaller than the margins
\* the fallback assumes.
PageSizes == { << 595, 842 >>, << 120, 100 >> }

\* Pages of the documents stamped.
PageCounts == {1, 2}

\* A page before any image is inserted.
BlankPage(size, labels) ==
    [w |-> size[1], h |-> size[2], labels |-> labels, overlays |-> << >>]

\* The arguments x, y, width, height: the defaults of the signature
\* (x=None, y=None, width=100, height=40), the call PdfWriter.write makes
\* (width=100, height=50), and calls that give x, y or both.
StampArgs ==
    { [x_given |-> xg, y_given |-> yg, x |-> 10, y |-> 20,
       width |-> 100, height |-> hh] :
        xg \in BOOLEAN, yg \in BOOLEAN, hh \in {40, 50} }

\* fitz.Rect(x0, y0, x1, y1)
Rect(x0, y0, x1, y1) == [x0 |-> x0, y0 |-> y0, x1 |-> x1, y1 |-> y1]

\* bool(rect): false only for the rectangle of four zeros.
RectTruthy(rect) ==
    ~ (rect.x0 = 0 /\ rect.y0 = 0 /\ rect.x1 = 0 /\ rect.y1 = 0)

\* page.search_for(needle): the text rectangles that contain the needle,
\* in page order.
search_for(page, needle) ==
    SelectSeq(page.labels,
              LAMBDA l : needle = "Signature" \/ l.text = needle)

\* As insert_rect, placing the image by the first text found, not the last.
insert_rect_first_hit(page, args) ==
    LET first_try == search_for(page, "Signature of the")
        text_instances == IF first_try = << >>
                          THEN search_for(page, "Signature")
                          ELSE first_try
    IN
    IF text_instances # << >>
    THEN LET text_rect == text_instances[1]
             new_x == text_rect.x0 - 25
             new_y == text_rect.y0 - args.height - 10
         IN Rect(new_x, new_y, new_x + args.width, new_y + args.height)
    ELSE IF args.x_given /\ args.y_given
    THEN Rect(args.x, args.y, args.x + args.width, args.y + args.height)
    ELSE LET safe_x == page.w - args.width - 50
             safe_y == page.h - 150
         IN Rect(safe_x, safe_y, safe_x + args.width, safe_y + args.height)

\* As insert_rect, without the bottom-right fallback.
insert_rect_no_fallback(page, args) ==
    LET first_try == search_for(page, "Signature of the")
        text_instances == IF first_try = << >>
                          THEN search_for(page, "Signature")
                          ELSE first_try
    IN
    IF text_instances # << >>
    THEN LET text_rect == text_instances[Len(text_instances)]
             new_x == text_rect.x0 - 25
             new_y == text_rect.y0 - args.height - 10
         IN Rect(new_x, new_y, new_x + args.width, new_y + args.height)
    ELSE IF args.x_given /\ args.y_given
    THEN Rect(args.x, args.y, args.x + args.width, args.y + args.height)
    ELSE Rect(0, 0, 0, 0)

\* The rectangle one loop iteration computes for a page: above the last
\* "Signature of the" line, else above the last "Signature" line, else at
\* x, y when both are given, else near the bottom right corner.
insert_rect(page, args) ==
    LET first_try == search_for(page, "Signature of the")
        text_instances == IF first_try = << >>
                          THEN search_for(page, "Signature")
                          ELSE first_try
    IN
    IF text_instances # << >>
    THEN LET text_rect == text_instances[Len(text_instances)]
             new_x == text_rect.x0 - 25
             new_y == text_rect.y0 - args.height - 10
         IN Rect(new_x, new_y, new_x + args.width, new_y + args.height)
    ELSE IF args.x_given /\ args.y_given
    THEN Rect(args.x, args.y, args.x + args.width, args.y + args.height)
    ELSE LET safe_x == page.w - args.width - 50
             safe_y == page.h - 150
         IN Rect(safe_x, safe_y, safe_x + args.width, safe_y + args.height)

\* As insert_image, with a caption line written under the image.
insert_image_captioned(page, rect) ==
    [page EXCEPT !.overlays = Append(@, rect),
                 !.labels = Append(@, [text |-> "Signature",
                                       x0 |-> rect.x0, y0 |-> rect.y1])]

\* page.insert_image(rect, filename=image_path, overlay=True): the image is
\* drawn over the page in rect; the page's text and size stay as they are.
insert_image(page, rect) ==
    [page EXCEPT !.overlays = Append(@, rect)]

\* The documents add_image_to_all_pages_fitz is called on, each with the
\* arguments of the call.
InitStamp ==
    /\ libs = [pdf |-> TRUE, fitz |-> TRUE]
    /\ uploads = [n \in UploadNames |-> NoReq]
    /\ outfs = [p \in OutPaths |-> << >>]
    /\ req = [r \in Reqs |-> Idle]
    /\ \E n \in PageCounts, size \in PageSizes, args \in StampArgs :
       \E labels \in [1..n -> LabelSeqs] :
         LET file == [i \in 1..n |-> BlankPage(size, labels[i])]
         IN pg = [NoStamping EXCEPT !.pc = "ready", !.file = file,
                                    !.args = args]
    /\ cli = NoCliCall
    /\ sel = NoSelection

\* doc = fitz.open(pdf_path); modified = False. The function is called at
\* most twice on the same file.
FitzOpen ==
    /\ pg.pc = "ready"
    /\ pg.pass < 2
    /\ pg' = [pg EXCEPT !.pc = "loop", !.pass = @ + 1, !.doc = pg.file,
                        !.i = 1, !.modified = FALSE, !.rects = << >>,
                        !.rects1 = IF pg.pass = 0 THEN << >> ELSE pg.rects,
                        !.first = IF pg.pass = 0 THEN << >> ELSE pg.file]
    /\ UNCHANGED << cli, sel, libs, uploads, outfs, req >>

\* One iteration of "for page in doc": compute insert_rect and insert the
\* image. An image that does not decode raises; the except clause prints
\* and the function returns without saving.
PageStep ==
    /\ pg.pc = "loop"
    /\ pg.i <= Len(pg.doc)
    /\ LET rect == insert_rect(pg.doc[pg.i], pg.args) IN
       IF RectTruthy(rect)
       THEN \E quality \in ImageQualities(pg) :
              IF quality = "good"
              THEN pg' = [pg EXCEPT !.image = quality,
                                    !.doc[pg.i] = insert_image(@, rect),
                                    !.rects = Append(@, rect),
                                    !.modified = TRUE,
                                    !.i = @ + 1]
              ELSE pg' = [pg EXCEPT !.image = quality,
                                    !.raised = TRUE,
                                    !.pc = "ready"]
       ELSE pg' = [pg EXCEPT !.i = @ + 1]
    /\ UNCHANGED << cli, sel, libs, uploads, outfs, req >>

\* After the loop: if modified: doc.saveIncr().
SaveIncr ==
    /\ pg.pc = "loop"
    /\ pg.i > Len(pg.doc)
    /\ pg' = [pg EXCEPT !.pc = "ready",
                        !.file = IF pg.modified THEN pg.doc ELSE @]
    /\ UNCHANGED << cli, sel, libs, uploads, outfs, req >>

NextStamp ==
    \/ FitzOpen
    \/ PageStep
    \/ SaveIncr

SpecStamp == InitStamp /\ [][NextStamp]_vars

\* A call of add_image_to_all_pages_fitz has returned without an exception.
StampReturned == pg.pc = "ready" /\ pg.pass >= 1 /\ ~ pg.raised

\* The rectangle of the bottom-right fallback for a page.
BottomRight(page, args) ==
    Rect(page.w - args.width - 50, page.h - 150,
         page.w - 50, page.h - 150 + args.height)

\* C15: whatever text a page holds, a call that returns without an
\* exception has drawn the image on every page; a page with no signature
\* line, in a call without x and y, has it near the bottom right corner;
\* and the only calls that raise are those whose image does not decode.
C15_EveryPageGetsRegion ==
    /\ StampReturned =>
         /\ Len(pg.rects) = Len(pg.file)
         /\ \A i \in 1..Len(pg.file) :
              /\ pg.file[i].overlays # << >>
              /\ pg.file[i].overlays[Len(pg.file[i].overlays)] = pg.rects[i]
              /\ (pg.file[i].labels = << >>
                  /\ ~ (pg.args.x_given /\ pg.args.y_given))
                 => pg.rects[i] = BottomRight(pg.file[i], pg.args)
    /\ pg.raised => pg.image = "bad"

\* C15: a two-page document, one page with a signature line and one
\* without, stamped on both pages by a call without x and y.
C15_Witness ==
    /\ StampReturned
    /\ ~ pg.args.x_given
    /\ Len(pg.file) = 2
    /\ pg.file[1].labels # << >>
    /\ pg.file[2].labels = << >>
    /\ pg.rects[2] = BottomRight(pg.file[2], pg.args)
    /\ pg.rects[1] # BottomRight(pg.file[1], pg.args)

\* The rectangle a call that gives x and y asks for.
ExplicitRect(args) ==
    Rect(args.x, args.y, args.x + args.width, args.y + args.height)

\* C16: a call that gives both x and y has drawn the image at exactly
\* (x, y, x + width, y + height) on every page it has processed, whatever
\* text the page holds.
C16_ExplicitCoordinatesUsed ==
    (pg.args.x_given /\ pg.args.y_given) =>
      \A i \in 1..Len(pg.rects) : pg.rects[i] = ExplicitRect(pg.args)

\* Text and size of a page: what lies outside the inserted images.
OutsideOverlay(page) == [w |-> page.w, h |-> page.h, labels |-> page.labels]

\* The distinct rectangles images were drawn in on a page.
OverlayRegions(page) == { page.overlays[k] : k \in 1..Len(page.overlays) }

\* The function has been applied twice to the same file, both times
\* without an exception.
AppliedTwice == pg.pc = "ready" /\ pg.pass = 2 /\ ~ pg.raised

\* C17: after a second application with the same image and arguments, the
\* second pass resolved on every page the rectangle the first pass
\* resolved, and each page has the text, the size and the image regions
\* it had after the first application.
C17_SecondApplicationSameRegion ==
    AppliedTwice =>
      /\ pg.rects = pg.rects1
      /\ Len(pg.file) = Len(pg.first)
      /\ \A i \in 1..Len(pg.file) :
           /\ OutsideOverlay(pg.file[i]) = OutsideOverlay(pg.first[i])
           /\ OverlayRegions(pg.file[i]) = OverlayRegions(pg.first[i])

\* C17: a two-page document stamped twice, its first page placed by a
\* signature line and its second by the fallback, each page holding the
\* image twice in one region.
C17_Witness ==
    /\ AppliedTwice
    /\ Len(pg.file) = 2
    /\ pg.file[1].labels # << >>
    /\ pg.file[2].labels = << >>
    /\ Len(pg.file[1].overlays) = 2
    /\ Len(pg.file[2].overlays) = 2
    /\ pg.rects1 # << >>

\* ---------------------------------------------------------------------
\* Progress.  Each request is handled by a thread of its own that runs its
\* code to the end: no step of generate_report or of the pipeline waits
\* for another request, for a lock or for input.

\* The steps of one request.
Handle(r) ==
    \/ WebValidate(r) \/ WebSaveInputs(r) \/ WebSigningAssets(r)
    \/ WebConstruct(r) \/ WebExcept(r) \/ Construct(r) \/ Run(r)
    \/ DocxWrite(r) \/ Convert(r) \/ Stamp(r) \/ SignLoad(r)
    \/ SignWrite(r) \/ NextWrite(r) \/ Deliver(r)

\* A thread that has entered the handler (or the controller) keeps running.
Started(r) == req[r].pc \notin {"idle", "done"}

SpecFair ==
    /\ Init
    /\ [][Next]_vars
    /\ \A r \in Reqs : WF_vars(Started(r) /\ Handle(r))

\* C21: from some point on no request is in the middle of its handling
\* (a request never starts twice, so each one that started has ended), and
\* what the caller of an ended request got is one of the responses and
\* never changes again.
C21_EveryRequestEnds ==
    /\ <>[](\A r \in Reqs : ~ Started(r))
    /\ [][\A r \in Reqs :
            req[r].pc = "done" =>
              /\ req'[r] = req[r]
              /\ req[r].result \in {"200", "400", "500", "path", "None",
                                    "raised"}]_vars

\* C21: a format 5 request that went through all three writes has ended
\* with its paths while a web request has ended with its response.
C21_Witness ==
    /\ req["r1"].pc = "done" /\ req["r1"].result = "path"
    /\ Len(req["r1"].report) = 3
    /\ req["r2"].pc = "done" /\ req["r2"].result \in {"400", "500"}

\* ---------------------------------------------------------------------
\* src/learner.py: sign_pdf of the command-line program.

\* The five arguments of sign_pdf.
CliArgs == {"pdf_path", "key_path", "cert_path", "image_path", "password"}

\* PdfWriter of PyPDF2 after page.merge_page(overlay_page) on every page:
\* the document written anew, each page followed by its overlay.
Merged(doc) ==
    [k \in 1..(2 * PageCount(doc)) |->
       IF k % 2 = 1 THEN Chunk("page", (k + 1) \div 2)
       ELSE Chunk("stamp", k \div 2)]

\* The calls of sign_pdf: which arguments are given (not empty), a PDF of
\* one page per student at pdf_path, and whether the key, the certificate
\* and the image load.
InitCli ==
    /\ libs = [pdf |-> TRUE, fitz |-> TRUE]
    /\ uploads = [n \in UploadNames |-> NoReq]
    /\ outfs = [p \in OutPaths |-> << >>]
    /\ req = [r \in Reqs |-> Idle]
    /\ pg = NoStamping
    /\ sel = NoSelection
    /\ \E given \in SUBSET CliArgs, n \in 1..MaxStudents,
          key_ok \in BOOLEAN, cert_ok \in BOOLEAN, image_ok \in BOOLEAN :
         cli = [NoCliCall EXCEPT !.pc = "entry", !.given = given,
                                 !.pdf = Rendered(n), !.key_ok = key_ok,
                                 !.cert_ok = cert_ok, !.image_ok = image_ok]

\* if not all([pdf_path, key_path, cert_path, image_path, password]): return
CliEntry ==
    /\ cli.pc = "entry"
    /\ cli' = IF cli.given = CliArgs
              THEN [cli EXCEPT !.pc = "load"]
              ELSE [cli EXCEPT !.pc = "done", !.ret = "None"]
    /\ UNCHANGED << libs, uploads, outfs, req, pg, sel >>

\* The key and the certificate are loaded; an error is caught by the
\* except clause, which prints and falls off the end of the function.
CliLoad ==
    /\ cli.pc = "load"
    /\ cli' = IF cli.key_ok /\ cli.cert_ok
              THEN [cli EXCEPT !.pc = "overlay"]
              ELSE [cli EXCEPT !.pc = "done", !.ret = "None"]
    /\ UNCHANGED << libs, uploads, outfs, req, pg, sel >>

\* The image is opened, one signature box per page is computed, the image
\* is merged into every page and the result is written to a buffer.
CliOverlay ==
    /\ cli.pc = "overlay"
    /\ cli' = IF cli.image_ok
              THEN [cli EXCEPT !.pc = "temp", !.updated = Merged(cli.pdf)]
              ELSE [cli EXCEPT !.pc = "done", !.ret = "None"]
    /\ UNCHANGED << libs, uploads, outfs, req, pg, sel >>

\* with open("temp_visually_signed.pdf", "wb") as f: f.write(...); return.
\* The call of pdf.cms.sign and the write to pdf_path come after this
\* return and are never run.
CliWriteTemp ==
    /\ cli.pc = "temp"
    /\ cli' = [cli EXCEPT !.pc = "done", !.temp = cli.updated,
                          !.ret = "None"]
    /\ UNCHANGED << libs, uploads, outfs, req, pg, sel >>

NextCli ==
    \/ CliEntry
    \/ CliLoad
    \/ CliOverlay
    \/ CliWriteTemp

SpecCli == InitCli /\ [][NextCli]_vars

StampCount(doc) == Cardinality({i \in 1..Len(doc) : doc[i].kind = "stamp"})

\* C22: when sign_pdf of the command-line program has returned from a call
\* with all five arguments given and key, certificate and image loadable,
\* the file at pdf_path holds one signature and an image on every page.
C22_CliSignsAndStamps ==
    (/\ cli.pc = "done"
     /\ cli.given = CliArgs
     /\ cli.key_ok /\ cli.cert_ok /\ cli.image_ok)
    => /\ SigCount(cli.pdf) = 1
       /\ StampCount(cli.pdf) = PageCount(cli.pdf)

\* C23: no finished write of a Format 3 summary has the image applied or a
\* signature made: the image is applied only in writes of the formats that
\* are signed.
C23_SummaryNeverStamped ==
    \A r \in Reqs :
      \A i \in 1..Len(req[r].report) :
        /\ req[r].report[i].fmt = "3" =>
             (~ req[r].report[i].stamped /\ ~ req[r].report[i].signed)
        /\ req[r].report[i].stamped =>
             req[r].report[i].fmt \in SignableFormats

\* ---------------------------------------------------------------------
\* StudentDataProcessor: process_data and filter_students.

\* Rows of the Excel sheet.
MaxRows == 3

\* Register numbers as read_data leaves them: strings of digits
\* (astype(str)), here "9" and "10".
RegNumbers == { << 9 >>, << 1, 0 >> }

\* What student.get('Midterm Exam Marks (Out of 30)') gives: a number, the
\* NaN pandas puts in an empty cell, a text that is no number, or None when
\* the column is missing.
MarkValues ==
    { [kind |-> "num", v |-> m] : m \in {0, 12, 24} }
      \cup { [kind |-> k, v |-> 0] : k \in {"nan", "text", "none"} }

Rows == [reg : RegNumbers, marks : MarkValues]

\* A float: a number or NaN.
Float(v) == [nan |-> FALSE, v |-> v]
NaN == [nan |-> TRUE, v |-> 0]

\* Python's <= and >= on floats: every comparison with NaN is False.
FloatLe(a, b) == ~ a.nan /\ a.v <= b
FloatGe(a, b) == ~ a.nan /\ a.v >= b

\* MIDTERM_TOTAL_MARKS
MIDTERM_TOTAL_MARKS == 30

\* _calculate_midterm_percentage(marks): (float(marks) / 30) * 100, and 0
\* when float() raises ValueError or TypeError.  float(NaN) does not raise.
\* For the marks used here (multiples of 3) the float result is the exact
\* integer.
calculate_midterm_percentage(marks) ==
    CASE marks.kind = "num" -> Float((marks.v * 100) \div MIDTERM_TOTAL_MARKS)
      [] marks.kind = "nan" -> NaN
      [] OTHER -> Float(0)

\* process_data: every student gets a MidtermPercentage.
process_data(all_student_data) ==
    [i \in 1..Len(all_student_data) |->
       [reg |-> all_student_data[i].reg,
        marks |-> all_student_data[i].marks,
        MidtermPercentage |->
          calculate_midterm_percentage(all_student_data[i].marks)]]

\* Python's < on strings, here on strings of digits.
RECURSIVE StrLess(_, _)
StrLess(a, b) ==
    IF b = << >> THEN FALSE
    ELSE IF a = << >> THEN TRUE
    ELSE IF a[1] # b[1] THEN a[1] < b[1]
    ELSE StrLess(Tail(a), Tail(b))

\* list.sort(key=register number): stable, so a student is put behind
\* every student already placed whose key is not greater.
RECURSIVE InsertByReg(_, _)
InsertByReg(sorted, s) ==
    IF sorted = << >> THEN << s >>
    ELSE IF StrLess(s.reg, sorted[1].reg) THEN << s >> \o sorted
    ELSE << sorted[1] >> \o InsertByReg(Tail(sorted), s)

RECURSIVE SortByReg(_)
SortByReg(students) ==
    IF students = << >> THEN << >>
    ELSE InsertByReg(SortByReg(SubSeq(students, 1, Len(students) - 1)),
                     students[Len(students)])

\* As filter_students, with the comparisons of the rule printed on the
\* Format 1 report: less than, more than.
filter_students_strict(students, learner_type, slow_thresh, fast_thresh) ==
    SortByReg(SelectSeq(students,
                LAMBDA s : /\ ~ s.MidtermPercentage.nan
                           /\ IF learner_type = "slow"
                              THEN s.MidtermPercentage.v < slow_thresh
                              ELSE s.MidtermPercentage.v > fast_thresh))

\* filter_students(students, learner_type, slow_thresh, fast_thresh)
filter_students(students, learner_type, slow_thresh, fast_thresh) ==
    SortByReg(SelectSeq(students,
                LAMBDA s : IF learner_type = "slow"
                           THEN FloatLe(s.MidtermPercentage, slow_thresh)
                           ELSE FloatGe(s.MidtermPercentage, fast_thresh)))

\* The sheets and the form values a run works on.
InitSelect ==
    /\ libs = [pdf |-> TRUE, fitz |-> TRUE]
    /\ uploads = [n \in UploadNames |-> NoReq]
    /\ outfs = [p \in OutPaths |-> << >>]
    /\ req = [r \in Reqs |-> Idle]
    /\ pg = NoStamping
    /\ cli = NoCliCall
    /\ \E n \in 0..MaxRows, learner_type \in {"slow", "fast", "advanced"},
          slow_thresh \in {0, 40}, fast_thresh \in {40, 80} :
       \E rows \in [1..n -> Rows] :
         sel = [NoSelection EXCEPT !.pc = "read", !.rows = rows,
                                   !.learner_type = learner_type,
                                   !.slow_thresh = slow_thresh,
                                   !.fast_thresh = fast_thresh]

\* processed_students = self.processor.process_data(all_student_data, ...)
ProcessData ==
    /\ sel.pc = "read"
    /\ sel' = [sel EXCEPT !.pc = "processed",
                          !.students = process_data(sel.rows)]
    /\ UNCHANGED << libs, uploads, outfs, req, pg, cli >>

\* final_filtered_students = self.processor.filter_students(...)
FilterStudents ==
    /\ sel.pc = "processed"
    /\ sel' = [sel EXCEPT !.pc = "filtered",
                          !.out = filter_students(sel.students,
                                                  sel.learner_type,
                                                  sel.slow_thresh,
                                                  sel.fast_thresh)]
    /\ UNCHANGED << libs, uploads, outfs, req, pg, cli >>

NextSelect ==
    \/ ProcessData
    \/ FilterStudents

SpecSelect == InitSelect /\ [][NextSelect]_vars

\* The rule printed on the Format 1 report: "Midterm score less than
\* <slow>% considered as a slow learner", "more than <fast>% ... advanced".
PrintedRule(s) ==
    /\ ~ s.MidtermPercentage.nan
    /\ IF sel.learner_type = "slow"
       THEN s.MidtermPercentage.v < sel.slow_thresh
       ELSE s.MidtermPercentage.v > sel.fast_thresh

\* C24: the students filter_students has selected are exactly those the
\* printed rule classifies.
C24_SelectedAsPrinted ==
    sel.pc = "filtered" =>
      /\ \A i \in 1..Len(sel.out) : PrintedRule(sel.out[i])
      /\ \A i \in 1..Len(sel.students) :
           PrintedRule(sel.students[i]) =>
             \E j \in 1..Len(sel.out) : sel.out[j] = sel.students[i]

\* The threshold test of filter_students.
Qualifies(s) ==
    IF sel.learner_type = "slow"
    THEN FloatLe(s.MidtermPercentage, sel.slow_thresh)
    ELSE FloatGe(s.MidtermPercentage, sel.fast_thresh)

\* How often a student stands in a list.
Occurrences(list, s) == Cardinality({i \in 1..Len(list) : list[i] = s})

C28_MissingMarkIsZero ==
    /\ sel.pc \in {"processed", "filtered"} =>
         /\ Len(sel.students) = Len(sel.rows)
         /\ \A i \in 1..Len(sel.rows) :
              sel.rows[i].marks.kind # "num" =>
                sel.students[i].MidtermPercentage = Float(0)
    /\ (sel.pc = "filtered" /\ sel.learner_type = "slow"
        /\ sel.slow_thresh >= 0) =>
         \A i \in 1..Len(sel.rows) :
           sel.rows[i].marks.kind # "num" =>
             Occurrences(sel.out, sel.students[i]) > 0

\* The width-by-height box whose left edge is 25 left of an anchor and
\* whose bottom edge is 10 above the anchor's top.
AnchorBox(anchor, args) ==
    Rect(anchor.x0 - 25, anchor.y0 - 10 - args.height,
         anchor.x0 - 25 + args.width, anchor.y0 - 10)

\* The last text line of a page that reads one of the given texts.
LastLabel(page, texts) ==
    LET at == {k \in 1..Len(page.labels) : page.labels[k].text \in texts}
    IN page.labels[CHOOSE k \in at : \A m \in at : m <= k]

\* The region by the priority: last "Signature of the", else last
\* "Signature" (which "Signature of the" contains too), else, where
\* explicit is set and x and y are both given, the box at (x, y), else the
\* bottom-right fallback.
ChosenRegion(page, args, explicit) ==
    IF \E k \in 1..Len(page.labels) : page.labels[k].text = "Signature of the"
    THEN AnchorBox(LastLabel(page, {"Signature of the"}), args)
    ELSE IF page.labels # << >>
    THEN AnchorBox(LastLabel(page, LabelTexts), args)
    ELSE IF explicit /\ args.x_given /\ args.y_given
    THEN ExplicitRect(args)
    ELSE BottomRight(page, args)

C29_RegionInsidePage ==
    \A i \in 1..Len(pg.rects) :
      /\ pg.rects[i].x0 >= 0
      /\ pg.rects[i].y0 >= 0
      /\ pg.rects[i].x1 <= pg.doc[i].w
      /\ pg.rects[i].y1 <= pg.doc[i].h

\* ---------------------------------------------------------------------
\* The handler alone, for sheets with and without a matching student.

\* Whether the sheet a request uploads holds a student that matches the
\* filter is a property of the request.
InitWeb ==
    /\ libs = [pdf |-> TRUE, fitz |-> TRUE]
    /\ uploads = [n \in UploadNames |-> NoReq]
    /\ outfs = [p \in OutPaths |-> << >>]
    /\ \E has_match \in [Reqs -> BOOLEAN] :
         req = [r \in Reqs |-> [Idle EXCEPT !.has_match = has_match[r]]]
    /\ pg = NoStamping
    /\ cli = NoCliCall
    /\ sel = NoSelection

\* The steps of generate_report up to and including the construction of
\* the controller, and its except clause.
NextWeb ==
    \/ \E r \in Reqs : WebValidate(r)
    \/ \E r \in Reqs : WebSaveInputs(r)
    \/ \E r \in Reqs : WebSigningAssets(r)
    \/ \E r \in Reqs : WebConstruct(r)
    \/ \E r \in Reqs : WebExcept(r)

SpecWeb == InitWeb /\ [][NextWeb]_vars

\* A web request that passed every validation of the handler has ended.
ValidatedAndEnded(r) ==
    /\ req[r].via = "web"
    /\ req[r].pc = "done"
    /\ req[r].result # "400"

\* C26: a request that passed all validation and whose sheet holds a
\* matching student does not end in the 500 of an exception raised by the
\* handler's own call of ReportController.
C26_ValidRequestNotFailedByCall ==
    \A r \in Reqs :
      (ValidatedAndEnded(r) /\ req[r].has_match) =>
        ~ (req[r].result = "500" /\ req[r].exc = "TypeError")

\* C30: a run that returned None has written no report file, and a web
\* request that passed validation and whose sheet holds no matching
\* student is answered with "Report generation failed.".
C30_NoMatchNoOutput ==
    \A r \in Reqs :
      /\ (req[r].pc = "done" /\ req[r].result = "None") =>
           /\ req[r].report = << >>
           /\ \A p \in OutPaths : outfs[p] = << >>
      /\ (ValidatedAndEnded(r) /\ ~ req[r].has_match) =>
           /\ req[r].result = "500"
           /\ req[r].error = "Report generation failed."

====
